---- MODULE Spec2Model ----
(***************************************************************************)
(* Model of the Go-Distribute-Cache core: the byte-accounted LRU store     *)
(* (cache/lru), the consistent-hash ring (cache/consistenthash), the       *)
(* single-flight coalescer (cache/singleflight) and the Group coordinator  *)
(* (cache/geecache.go).                                                    *)
(***************************************************************************)
EXTENDS Integers, Sequences, FiniteSets, TLC

VARIABLES
    lru,        \* lru.Cache: [maxBytes, nbytes, ll, cache, OnEvicted, evicted]
    lruOp,      \* the last lru.Cache method that returned: [op, key, hit]
    recency,    \* history: keys of the store, most recently accessed first
    preOrder,   \* history: recency right after the last access, before eviction
    evictedSet, \* history: keys the last operation evicted
    rings,      \* consistenthash.Map per ring: [replicas, hash, keys, hashMap, panicked]
    added,      \* history: per ring, the peers of its Add calls, in order
    ringN,      \* history: per ring, the number of Add and Remove calls made
    ringOps,    \* history: per ring, the last two mutating calls
    snap,       \* history: per ring, the ring before its last Add
    ringGot,    \* the Map.Get that just returned, if the last call was a Get: [ring, key, peer]
    sfMu,       \* singleflight.Group.mu: 0 when free, else the process holding it
    sfM,        \* singleflight.Group.m: [made, tab], tab maps a key to its call
    calls,      \* the call records allocated so far: [wg, val, err] and history fields
    pc,         \* per process, its position in Do (or Group.Get)
    arg,        \* per process, the key of its current call
    cref,       \* per process, the local variable c of Do
    ret,        \* per process, the (value, error) its last call returned
    joined,     \* history: per process, whether its lookup found a record in the map
    ran,        \* history: per process, the thunk runs it made in its current call
    runs,       \* history: the number of thunk runs so far
    nDo,        \* history: the number of calls started so far
    win,        \* history: per key, the current window of overlapping calls
    mainCache,  \* Group.mainCache: [cacheBytes, made, lru]
    peers,      \* Group.peers: "nil" or the registered picker
    crashed,    \* an unrecovered panic has ended the program
    origin,     \* per key, the version of the origin's data
    tmp,        \* per process, the bytes its origin loader returned
    used,       \* history: per process, what its current Group.Get has done
    note,       \* history: per process, the value the LRU held when its Get hit
    reg,        \* per registrar, its position in Group.RegisterPeers
    assigned,   \* history: the pickers assigned to Group.peers, in order
    lruPc       \* the position of a stepwise lru.Cache.Add: "idle" or "evict"

lruVars == <<lru, lruOp, recency, preOrder, evictedSet>>

ringVars == <<rings, added, ringN, ringOps, snap, ringGot>>

sfVars == <<sfMu, sfM, calls, pc, arg, cref, ret, joined, ran, runs, nDo, win>>

grpVars == <<mainCache, peers, crashed, origin, tmp, used, note>>

regVars == <<reg, assigned>>

stepVars == <<lruPc>>

vars == <<lruVars, ringVars, sfVars, grpVars, regVars, stepVars>>

----------------------------------------------------------------------------
(* Bounds *)

MaxRingOps == 3
MaxPairAdds == 2
MaxDo == 3
MaxGets == 2
MaxVersion == 1

----------------------------------------------------------------------------
(* cache/lru/lru.go *)

LruKeys == {"a", "k1", "key"}
LruValues == {[b |-> ""], [b |-> "v2"], [b |-> "1234"], [b |-> "123456789"]}
LruBudgets == {0, 6, 10}

\* Value.Len() of a stored value (ByteView.Len: len(v.b))
ValueLen(v) == Len(v.b)

\* lru.New(maxBytes, onEvicted)
LruNew(maxBytes, onEvicted) ==
    [maxBytes |-> maxBytes, nbytes |-> 0, ll |-> <<>>, cache |-> {},
     OnEvicted |-> onEvicted, evicted |-> <<>>]

\* the list element c.cache[key] points to, as its position in c.ll
Element(c, key) == CHOOSE i \in 1..Len(c.ll) : c.ll[i].key = key

\* list.MoveToFront
MoveToFront(ll, i) == <<ll[i]>> \o SubSeq(ll, 1, i - 1) \o SubSeq(ll, i + 1, Len(ll))

\* Cache.RemoveOldest
RemoveOldest(c) ==
    IF Len(c.ll) = 0 THEN c
    ELSE LET kv == c.ll[Len(c.ll)] IN
         [c EXCEPT !.ll = SubSeq(c.ll, 1, Len(c.ll) - 1),
                   !.cache = @ \ {kv.key},
                   !.nbytes = @ - (Len(kv.key) + ValueLen(kv.value)),
                   !.evicted = IF c.OnEvicted THEN Append(@, kv) ELSE @]

\* a single conditional eviction in place of the loop
EvictOnce(c) ==
    IF c.maxBytes # 0 /\ c.maxBytes < c.nbytes THEN RemoveOldest(c) ELSE c

\* the eviction loop of Cache.Add: for c.maxBytes != 0 && c.maxBytes < c.nbytes
RECURSIVE EvictLoop(_)
EvictLoop(c) ==
    IF c.maxBytes # 0 /\ c.maxBytes < c.nbytes
    THEN EvictLoop(RemoveOldest(c))
    ELSE c

\* Cache.Add whose update of an existing key forgets the old value's length
LruAddNoSub(c, key, value) ==
    LET c1 == IF key \in c.cache
              THEN LET i == Element(c, key)
                       ll1 == MoveToFront(c.ll, i)
                   IN [c EXCEPT !.ll = [ll1 EXCEPT ![1].value = value],
                                !.nbytes = @ + ValueLen(value)]
              ELSE [c EXCEPT !.ll = <<[key |-> key, value |-> value]>> \o @,
                             !.cache = @ \cup {key},
                             !.nbytes = @ + Len(key) + ValueLen(value)]
    IN EvictLoop(c1)

\* Cache.Add
LruAdd(c, key, value) ==
    LET c1 == IF key \in c.cache
              THEN LET i == Element(c, key)
                       ll1 == MoveToFront(c.ll, i)
                   IN [c EXCEPT !.ll = [ll1 EXCEPT ![1].value = value],
                                !.nbytes = @ + ValueLen(value) - ValueLen(c.ll[i].value)]
              ELSE [c EXCEPT !.ll = <<[key |-> key, value |-> value]>> \o @,
                             !.cache = @ \cup {key},
                             !.nbytes = @ + Len(key) + ValueLen(value)]
    IN EvictLoop(c1)

\* Cache.Get that leaves the list order alone
LruGetNoTouch(c, key) == c

\* Cache.Get: the store after the call
LruGet(c, key) ==
    IF key \in c.cache
    THEN [c EXCEPT !.ll = MoveToFront(c.ll, Element(c, key))]
    ELSE c

\* Cache.Get: the returned (value, ok)
LruGetResult(c, key) ==
    IF key \in c.cache
    THEN [value |-> c.ll[Element(c, key)].value, ok |-> TRUE]
    ELSE [value |-> [b |-> ""], ok |-> FALSE]

\* Cache.Len
LruLen(c) == Len(c.ll)

\* history: k becomes the most recently accessed key
Touch(order, k) == <<k>> \o SelectSeq(order, LAMBDA x : x # k)

\* history: what lruOp remembers of the operation before the last one
NoOp == [op |-> "None", key |-> "", hit |-> FALSE]
Brief(o) == [op |-> o.op, key |-> o.key, hit |-> o.hit]

LruIdle ==
    /\ lru = LruNew(0, FALSE)
    /\ lruOp = [op |-> "New", key |-> "", hit |-> FALSE, size |-> 0, prev |-> NoOp]
    /\ recency = <<>>
    /\ preOrder = <<>>
    /\ evictedSet = {}
    /\ lruPc = "idle"

LruStart ==
    /\ \E mb \in LruBudgets, cb \in BOOLEAN : lru = LruNew(mb, cb)
    /\ lruOp = [op |-> "New", key |-> "", hit |-> FALSE, size |-> 0, prev |-> NoOp]
    /\ recency = <<>>
    /\ preOrder = <<>>
    /\ evictedSet = {}
    /\ lruPc = "idle"

LruAddOp(key, value) ==
    /\ lru' = LruAdd([lru EXCEPT !.evicted = <<>>], key, value)
    /\ lruOp' = [op |-> "Add", key |-> key, hit |-> key \in lru.cache,
                 size |-> Len(key) + ValueLen(value), prev |-> Brief(lruOp)]
    /\ preOrder' = Touch(recency, key)
    /\ evictedSet' = (lru.cache \cup {key}) \ lru'.cache
    /\ recency' = SelectSeq(preOrder', LAMBDA x : x \in lru'.cache)
    /\ UNCHANGED <<ringVars, sfVars, grpVars, regVars, stepVars>>

LruGetOp(key) ==
    /\ lru' = LruGet([lru EXCEPT !.evicted = <<>>], key)
    /\ lruOp' = [op |-> "Get", key |-> key, hit |-> LruGetResult(lru, key).ok,
                 size |-> 0, prev |-> Brief(lruOp)]
    /\ preOrder' = IF key \in lru.cache THEN Touch(recency, key) ELSE recency
    /\ evictedSet' = {}
    /\ recency' = preOrder'
    /\ UNCHANGED <<ringVars, sfVars, grpVars, regVars, stepVars>>

LruRemoveOldestOp ==
    /\ lru' = RemoveOldest([lru EXCEPT !.evicted = <<>>])
    /\ lruOp' = [op |-> "RemoveOldest", key |-> "", hit |-> FALSE,
                 size |-> 0, prev |-> Brief(lruOp)]
    /\ preOrder' = recency
    /\ evictedSet' = lru.cache \ lru'.cache
    /\ recency' = SelectSeq(recency, LAMBDA x : x \in lru'.cache)
    /\ UNCHANGED <<ringVars, sfVars, grpVars, regVars, stepVars>>

LruNext ==
    \/ \E k \in LruKeys, v \in LruValues : LruAddOp(k, v)
    \/ \E k \in LruKeys : LruGetOp(k)
    \/ LruRemoveOldestOp

\* the budgets of the stepwise runs: New accepts any int64
StepBudgets == {-1, 0, 6}

\* Cache.Add lines 37-47: update the entry of key in place or push a new one
LruPut(c, key, value) ==
    IF key \in c.cache
    THEN LET i == Element(c, key)
             ll1 == MoveToFront(c.ll, i)
         IN [c EXCEPT !.ll = [ll1 EXCEPT ![1].value = value],
                      !.nbytes = @ + ValueLen(value) - ValueLen(c.ll[i].value)]
    ELSE [c EXCEPT !.ll = <<[key |-> key, value |-> value]>> \o @,
                   !.cache = @ \cup {key},
                   !.nbytes = @ + Len(key) + ValueLen(value)]

\* Cache.Add line 48: the condition of the eviction loop
LoopCond(c) == c.maxBytes # 0 /\ c.maxBytes < c.nbytes

LruStepStart ==
    /\ \E mb \in StepBudgets, cb \in BOOLEAN : lru = LruNew(mb, cb)
    /\ lruOp = [op |-> "New", key |-> "", hit |-> FALSE, size |-> 0, prev |-> NoOp]
    /\ recency = <<>>
    /\ preOrder = <<>>
    /\ evictedSet = {}
    /\ lruPc = "idle"

\* Cache.Add lines 37-47, up to the head of the eviction loop
AddBegin(key, value) ==
    /\ lruPc = "idle"
    /\ lru' = LruPut([lru EXCEPT !.evicted = <<>>], key, value)
    /\ lruPc' = "evict"
    /\ UNCHANGED <<lruOp, recency, preOrder, evictedSet>>
    /\ UNCHANGED <<ringVars, sfVars, grpVars, regVars>>

\* Cache.Add lines 48-49: the loop condition holds; one c.RemoveOldest()
AddEvict ==
    /\ lruPc = "evict"
    /\ LoopCond(lru)
    /\ lru' = RemoveOldest(lru)
    /\ UNCHANGED <<lruPc, lruOp, recency, preOrder, evictedSet>>
    /\ UNCHANGED <<ringVars, sfVars, grpVars, regVars>>

\* Cache.Add lines 48-51: the loop condition fails; Add returns
AddReturn ==
    /\ lruPc = "evict"
    /\ ~LoopCond(lru)
    /\ lruPc' = "idle"
    /\ UNCHANGED <<lru, lruOp, recency, preOrder, evictedSet>>
    /\ UNCHANGED <<ringVars, sfVars, grpVars, regVars>>

\* Cache.Get between two Adds
StepGet(key) ==
    /\ lruPc = "idle"
    /\ lru' = LruGet(lru, key)
    /\ UNCHANGED <<lruPc, lruOp, recency, preOrder, evictedSet>>
    /\ UNCHANGED <<ringVars, sfVars, grpVars, regVars>>

\* Cache.Add taken one loop iteration at a time
LruStepNext ==
    \/ \E k \in LruKeys, v \in LruValues : AddBegin(k, v)
    \/ AddEvict
    \/ AddReturn
    \/ \E k \in LruKeys : StepGet(k)

----------------------------------------------------------------------------
(* cache/consistenthash/consistenthash.go *)

\* strings of decimal digits, as sequences of digits; <<>> is the empty string
RingPeers == {<<6>>, <<1, 6>>, <<4>>}
RingLookupKeys == {<<2>>, <<1, 1>>, <<1, 6>>, <<9, 9, 9>>}
RingReplicas == {2, 3}
HashFns == {"atoi", "digitsum"}
RingIds == {1, 2}

\* strconv.Atoi of a digit string
RECURSIVE Atoi(_)
Atoi(s) == IF s = <<>> THEN 0 ELSE 10 * Atoi(SubSeq(s, 1, Len(s) - 1)) + s[Len(s)]

RECURSIVE DigitSum(_)
DigitSum(s) == IF s = <<>> THEN 0 ELSE Head(s) + DigitSum(Tail(s))

\* m.hash(data): the injected Hash, a total function to uint32 (the values
\* of the strings used here stay far below 2^32, so no truncation applies)
Hash(fn, s) == IF fn = "atoi" THEN Atoi(s) ELSE DigitSum(s)

\* strconv.Itoa(i) + key, for a replica index below 10
VNodeName(i, key) == <<i>> \o key

\* int(m.hash([]byte(strconv.Itoa(i) + key)))
VNodeHash(m, i, key) == Hash(m.hash, VNodeName(i, key))

\* consistenthash.New(replicas, fn)
RingNew(replicas, fn) ==
    [replicas |-> replicas, hash |-> fn, keys |-> <<>>, hashMap |-> <<>>, panicked |-> FALSE]

\* m.hashMap[hash] = key
MapSet(f, k, v) == [x \in DOMAIN f \cup {k} |-> IF x = k THEN v ELSE f[x]]

\* delete(m.hashMap, hash)
MapDelete(f, k) == [x \in DOMAIN f \ {k} |-> f[x]]

\* m.hashMap[h]: the zero value "" for a missing key
MapGet(f, k) == IF k \in DOMAIN f THEN f[k] ELSE <<>>

RECURSIVE InsertSorted(_, _)
InsertSorted(s, x) ==
    IF s = <<>> THEN <<x>>
    ELSE IF x <= Head(s) THEN <<x>> \o s
    ELSE <<Head(s)>> \o InsertSorted(Tail(s), x)

\* sort.Ints
RECURSIVE SortInts(_)
SortInts(s) == IF s = <<>> THEN <<>> ELSE InsertSorted(SortInts(Tail(s)), Head(s))

\* sort.Search(len(keys), func(i) { keys[i] >= hash }): binary search on [i, j),
\* 0-based; keys[h + 1] is the Go keys[h]
RECURSIVE Search(_, _, _, _)
Search(keys, hash, i, j) ==
    IF i < j
    THEN LET h == (i + j) \div 2 IN
         IF ~(keys[h + 1] >= hash) THEN Search(keys, hash, h + 1, j)
         ELSE Search(keys, hash, i, h)
    ELSE i

\* the virtual nodes of one peer: the inner loop of Map.Add from replica i on
RECURSIVE AddReplicas(_, _, _)
AddReplicas(m, key, i) ==
    IF i < m.replicas
    THEN LET hash == VNodeHash(m, i, key) IN
         AddReplicas([m EXCEPT !.keys = Append(@, hash),
                               !.hashMap = MapSet(@, hash, key)], key, i + 1)
    ELSE m

\* Map.Add that leaves the hash array unsorted
RingAddNoSort(m, key) == AddReplicas(m, key, 0)

\* Map.Add(key)
RingAdd(m, key) ==
    LET m1 == AddReplicas(m, key, 0) IN [m1 EXCEPT !.keys = SortInts(@)]

\* Map.Get that does not wrap around
RingGetNoWrap(m, key) ==
    IF Len(m.keys) = 0 THEN <<>>
    ELSE LET idx == Search(m.keys, Hash(m.hash, key), 0, Len(m.keys)) IN
         IF idx = Len(m.keys) THEN <<>> ELSE MapGet(m.hashMap, m.keys[idx + 1])

\* Map.Get
RingGet(m, key) ==
    IF Len(m.keys) = 0 THEN <<>>
    ELSE LET idx == Search(m.keys, Hash(m.hash, key), 0, Len(m.keys)) IN
         MapGet(m.hashMap, m.keys[(idx % Len(m.keys)) + 1])

\* Map.Remove(key) from replica i on; the slice expression m.keys[idx+1:]
\* panics when idx = len(m.keys)
RECURSIVE RemoveReplicas(_, _, _)
RemoveReplicas(m, key, i) ==
    IF i < m.replicas
    THEN LET hash == VNodeHash(m, i, key)
             idx == Search(m.keys, hash, 0, Len(m.keys))
         IN IF idx + 1 > Len(m.keys)
            THEN [m EXCEPT !.panicked = TRUE]
            ELSE RemoveReplicas(
                   [m EXCEPT !.keys = SubSeq(m.keys, 1, idx) \o SubSeq(m.keys, idx + 2, Len(m.keys)),
                             !.hashMap = MapDelete(@, hash)], key, i + 1)
    ELSE m

\* Map.Remove
RingRemove(m, key) == RemoveReplicas(m, key, 0)

NoRingOp == [op |-> "None", peer |-> <<>>]
NoGet == [ring |-> 0, key |-> <<>>, peer |-> <<>>]

RingStart ==
    /\ \E n \in RingReplicas, fn \in HashFns : rings = [r \in RingIds |-> RingNew(n, fn)]
    /\ added = [r \in RingIds |-> <<>>]
    /\ ringN = [r \in RingIds |-> 0]
    /\ ringOps = [r \in RingIds |-> <<NoRingOp, NoRingOp>>]
    /\ snap = [r \in RingIds |-> RingNew(0, "atoi")]
    /\ ringGot = NoGet

RingAddOp(r, p) ==
    /\ ~rings[r].panicked
    /\ ringN[r] < MaxRingOps
    /\ ringN' = [ringN EXCEPT ![r] = @ + 1]
    /\ rings' = [rings EXCEPT ![r] = RingAdd(@, p)]
    /\ added' = [added EXCEPT ![r] = Append(@, p)]
    /\ ringOps' = [ringOps EXCEPT ![r] = <<@[2], [op |-> "Add", peer |-> p]>>]
    /\ snap' = [snap EXCEPT ![r] = rings[r]]
    /\ ringGot' = NoGet
    /\ UNCHANGED <<lruVars, sfVars, grpVars, regVars, stepVars>>

RingRemoveOp(r, p) ==
    /\ ~rings[r].panicked
    /\ rings' = [rings EXCEPT ![r] = RingRemove(@, p)]
    /\ ringN[r] < MaxRingOps
    /\ ringN' = [ringN EXCEPT ![r] = @ + 1]
    /\ ringOps' = [ringOps EXCEPT ![r] = <<@[2], [op |-> "Remove", peer |-> p]>>]
    /\ ringGot' = NoGet
    /\ UNCHANGED <<added, snap>>
    /\ UNCHANGED <<lruVars, sfVars, grpVars, regVars, stepVars>>

RingGetOp(r, key) ==
    /\ ~rings[r].panicked
    /\ ringGot' = [ring |-> r, key |-> key, peer |-> RingGet(rings[r], key)]
    /\ UNCHANGED <<rings, added, ringN, ringOps, snap>>
    /\ UNCHANGED <<lruVars, sfVars, grpVars, regVars, stepVars>>

\* one ring under Add, Remove and Get
RingNext ==
    \/ \E p \in RingPeers : RingAddOp(1, p)
    \/ \E p \in RingPeers : RingRemoveOp(1, p)
    \/ \E key \in RingLookupKeys : RingGetOp(1, key)

\* Map.Add on one of two rings that are built by Add calls only
RingPairAdd(r, p) ==
    /\ Len(added[r]) < MaxPairAdds
    /\ RingAddOp(r, p)

\* two rings with the same replicas and hash function, each built by Add calls
RingPairNext ==
    \/ \E r \in RingIds, p \in RingPeers : RingPairAdd(r, p)
    \/ \E r \in RingIds, key \in RingLookupKeys : RingGetOp(r, key)

RingIdle ==
    /\ rings = [r \in RingIds |-> RingNew(0, "atoi")]
    /\ added = [r \in RingIds |-> <<>>]
    /\ ringN = [r \in RingIds |-> 0]
    /\ ringOps = [r \in RingIds |-> <<NoRingOp, NoRingOp>>]
    /\ snap = [r \in RingIds |-> RingNew(0, "atoi")]
    /\ ringGot = NoGet

----------------------------------------------------------------------------
(* cache/singleflight/singleflight.go *)

Procs == {1, 2, 3}
SfKeys == {"x", "y"}

\* the nil error
Nil == "nil"

\* values are byte views [b |-> <<tag, key, number>>]; the nil interface value
NilVal == [b |-> <<"nil", "", 0>>]

\* the value the thunk run number n for key returns
FnVal(key, n) == [b |-> <<"fn", key, n>>]

NoRet == [val |-> NilVal, err |-> "none"]

\* new(call), with the history fields of the model
NewCall(key, p) ==
    [wg |-> 0, val |-> NilVal, err |-> Nil, key |-> key, leader |-> p, nfn |-> 0, fnDone |-> FALSE]

\* history: the window of overlapping calls for one key
NoWin == [n |-> 0, returned |-> FALSE, dirty |-> FALSE]

\* the processes inside a call for key k
Active(k) == {p \in Procs : pc[p] # "idle" /\ arg[p] = k}

\* history: a call for k starts; warm says the key needed no fetch at its start
WinStart(k, warm) ==
    IF Active(k) = {}
    THEN [win EXCEPT ![k] = [n |-> 0, returned |-> FALSE, dirty |-> warm]]
    ELSE [win EXCEPT ![k].dirty = @ \/ win[k].returned \/ warm]

SfStart ==
    /\ sfMu = 0
    /\ sfM = [made |-> FALSE, tab |-> <<>>]
    /\ calls = <<>>
    /\ pc = [p \in Procs |-> "idle"]
    /\ arg = [p \in Procs |-> ""]
    /\ cref = [p \in Procs |-> 0]
    /\ ret = [p \in Procs |-> NoRet]
    /\ joined = [p \in Procs |-> FALSE]
    /\ ran = [p \in Procs |-> 0]
    /\ runs = 0
    /\ nDo = 0
    /\ win = [k \in {"x", "y", "k", "kk", ""} |-> NoWin]

SfIdle == SfStart

\* a caller invokes Do(key, fn)
DoCall(p, key) ==
    /\ ~crashed
    /\ pc[p] = "idle"
    /\ nDo < MaxDo
    /\ nDo' = nDo + 1
    /\ pc' = [pc EXCEPT ![p] = "lock"]
    /\ arg' = [arg EXCEPT ![p] = key]
    /\ cref' = [cref EXCEPT ![p] = 0]
    /\ ret' = [ret EXCEPT ![p] = NoRet]
    /\ joined' = [joined EXCEPT ![p] = FALSE]
    /\ ran' = [ran EXCEPT ![p] = 0]
    /\ win' = WinStart(key, FALSE)
    /\ UNCHANGED <<sfMu, sfM, calls, runs>>
    /\ UNCHANGED <<lruVars, ringVars, grpVars, regVars, stepVars>>

\* Do line 25: g.mu.Lock()
DoLock(p) ==
    /\ ~crashed
    /\ pc[p] = "lock"
    /\ sfMu = 0
    /\ sfMu' = p
    /\ pc' = [pc EXCEPT ![p] = "locked"]
    /\ UNCHANGED <<sfM, calls, arg, cref, ret, joined, ran, runs, nDo, win>>
    /\ UNCHANGED <<lruVars, ringVars, grpVars, regVars, stepVars>>

\* Do lines 27-45 without the lookup of lines 31-38: always publish a new record
DoLookupNoJoin(p) ==
    /\ ~crashed
    /\ pc[p] = "locked"
    /\ calls' = Append(calls, [NewCall(arg[p], p) EXCEPT !.wg = 1])
    /\ cref' = [cref EXCEPT ![p] = Len(calls) + 1]
    /\ sfM' = [made |-> TRUE, tab |-> MapSet(sfM.tab, arg[p], Len(calls) + 1)]
    /\ pc' = [pc EXCEPT ![p] = "fn"]
    /\ sfMu' = 0
    /\ UNCHANGED <<arg, ret, joined, ran, runs, nDo, win>>
    /\ UNCHANGED <<lruVars, ringVars, grpVars, regVars, stepVars>>

\* Do lines 27-45 that keeps g.mu locked when it publishes a new record
DoLookupHoldLock(p) ==
    /\ ~crashed
    /\ pc[p] = "locked"
    /\ IF arg[p] \in DOMAIN sfM.tab
       THEN /\ cref' = [cref EXCEPT ![p] = sfM.tab[arg[p]]]
            /\ joined' = [joined EXCEPT ![p] = TRUE]
            /\ sfM' = [sfM EXCEPT !.made = TRUE]
            /\ pc' = [pc EXCEPT ![p] = "wait"]
            /\ sfMu' = 0
            /\ UNCHANGED calls
       ELSE /\ calls' = Append(calls, [NewCall(arg[p], p) EXCEPT !.wg = 1])
            /\ cref' = [cref EXCEPT ![p] = Len(calls) + 1]
            /\ sfM' = [made |-> TRUE, tab |-> MapSet(sfM.tab, arg[p], Len(calls) + 1)]
            /\ pc' = [pc EXCEPT ![p] = "fn"]
            /\ UNCHANGED <<joined, sfMu>>
    /\ UNCHANGED <<arg, ret, ran, runs, nDo, win>>
    /\ UNCHANGED <<lruVars, ringVars, grpVars, regVars, stepVars>>

\* Do lines 27-45: make the map if nil; join the record of the key if there
\* is one, else publish a new record with wg = 1; unlock
DoLookup(p) ==
    /\ ~crashed
    /\ pc[p] = "locked"
    /\ IF arg[p] \in DOMAIN sfM.tab
       THEN /\ cref' = [cref EXCEPT ![p] = sfM.tab[arg[p]]]
            /\ joined' = [joined EXCEPT ![p] = TRUE]
            /\ sfM' = [sfM EXCEPT !.made = TRUE]
            /\ pc' = [pc EXCEPT ![p] = "wait"]
            /\ UNCHANGED calls
       ELSE /\ calls' = Append(calls, [NewCall(arg[p], p) EXCEPT !.wg = 1])
            /\ cref' = [cref EXCEPT ![p] = Len(calls) + 1]
            /\ sfM' = [made |-> TRUE, tab |-> MapSet(sfM.tab, arg[p], Len(calls) + 1)]
            /\ pc' = [pc EXCEPT ![p] = "fn"]
            /\ UNCHANGED joined
    /\ sfMu' = 0
    /\ UNCHANGED <<arg, ret, ran, runs, nDo, win>>
    /\ UNCHANGED <<lruVars, ringVars, grpVars, regVars, stepVars>>

\* Do lines 35-37 without the wait: the waiter reads the record at once
DoWaitNoBlock(p) ==
    /\ ~crashed
    /\ pc[p] = "wait"
    /\ ret' = [ret EXCEPT ![p] = [val |-> calls[cref[p]].val, err |-> calls[cref[p]].err]]
    /\ pc' = [pc EXCEPT ![p] = "idle"]
    /\ win' = [win EXCEPT ![arg[p]].returned = TRUE]
    /\ UNCHANGED <<sfMu, sfM, calls, arg, cref, joined, ran, runs, nDo>>
    /\ UNCHANGED <<lruVars, ringVars, grpVars, regVars, stepVars>>

\* Do lines 35-37: c.wg.Wait() returns once the counter is 0; return c.val, c.err
DoWait(p) ==
    /\ ~crashed
    /\ pc[p] = "wait"
    /\ calls[cref[p]].wg = 0
    /\ ret' = [ret EXCEPT ![p] = [val |-> calls[cref[p]].val, err |-> calls[cref[p]].err]]
    /\ pc' = [pc EXCEPT ![p] = "idle"]
    /\ win' = [win EXCEPT ![arg[p]].returned = TRUE]
    /\ UNCHANGED <<sfMu, sfM, calls, arg, cref, joined, ran, runs, nDo>>
    /\ UNCHANGED <<lruVars, ringVars, grpVars, regVars, stepVars>>

\* history: process p starts a run of the thunk of its call
FnBegins(p) ==
    /\ runs' = runs + 1
    /\ ran' = [ran EXCEPT ![p] = @ + 1]
    /\ win' = [win EXCEPT ![arg[p]].n = @ + 1]

\* Do line 48 with a thunk that returns (value, error): c.val, c.err = fn()
DoFn(p) ==
    /\ ~crashed
    /\ pc[p] = "fn"
    /\ FnBegins(p)
    /\ \E e \in {Nil, "thunk error"} :
          calls' = [calls EXCEPT ![cref[p]].val = FnVal(arg[p], runs + 1),
                                 ![cref[p]].err = e,
                                 ![cref[p]].nfn = @ + 1,
                                 ![cref[p]].fnDone = TRUE]
    /\ pc' = [pc EXCEPT ![p] = "done"]
    /\ UNCHANGED <<sfMu, sfM, arg, cref, ret, joined, nDo>>
    /\ UNCHANGED <<lruVars, ringVars, grpVars, regVars, stepVars>>

\* Do line 50 without c.wg.Done()
DoDoneNoSignal(p) ==
    /\ ~crashed
    /\ pc[p] = "done"
    /\ pc' = [pc EXCEPT ![p] = "lock2"]
    /\ UNCHANGED <<sfMu, sfM, calls, arg, cref, ret, joined, ran, runs, nDo, win>>
    /\ UNCHANGED <<lruVars, ringVars, grpVars, regVars, stepVars>>

\* Do line 50: c.wg.Done()
DoDone(p) ==
    /\ ~crashed
    /\ pc[p] = "done"
    /\ calls' = [calls EXCEPT ![cref[p]].wg = @ - 1]
    /\ pc' = [pc EXCEPT ![p] = "lock2"]
    /\ UNCHANGED <<sfMu, sfM, arg, cref, ret, joined, ran, runs, nDo, win>>
    /\ UNCHANGED <<lruVars, ringVars, grpVars, regVars, stepVars>>

\* Do line 52: g.mu.Lock()
DoLock2(p) ==
    /\ ~crashed
    /\ pc[p] = "lock2"
    /\ sfMu = 0
    /\ sfMu' = p
    /\ pc' = [pc EXCEPT ![p] = "locked2"]
    /\ UNCHANGED <<sfM, calls, arg, cref, ret, joined, ran, runs, nDo, win>>
    /\ UNCHANGED <<lruVars, ringVars, grpVars, regVars, stepVars>>

\* Do lines 54-58 that keeps the record of a call whose thunk failed
DoDeleteKeepFailed(p) ==
    /\ ~crashed
    /\ pc[p] = "locked2"
    /\ sfM' = IF calls[cref[p]].err = Nil
              THEN [sfM EXCEPT !.tab = MapDelete(@, arg[p])]
              ELSE sfM
    /\ sfMu' = 0
    /\ ret' = [ret EXCEPT ![p] = [val |-> calls[cref[p]].val, err |-> calls[cref[p]].err]]
    /\ pc' = [pc EXCEPT ![p] = "idle"]
    /\ win' = [win EXCEPT ![arg[p]].returned = TRUE]
    /\ UNCHANGED <<calls, arg, cref, joined, ran, runs, nDo>>
    /\ UNCHANGED <<lruVars, ringVars, grpVars, regVars, stepVars>>

\* Do lines 54-58: delete(g.m, key); unlock; return c.val, c.err
DoDelete(p) ==
    /\ ~crashed
    /\ pc[p] = "locked2"
    /\ sfM' = [sfM EXCEPT !.tab = MapDelete(@, arg[p])]
    /\ sfMu' = 0
    /\ ret' = [ret EXCEPT ![p] = [val |-> calls[cref[p]].val, err |-> calls[cref[p]].err]]
    /\ pc' = [pc EXCEPT ![p] = "idle"]
    /\ win' = [win EXCEPT ![arg[p]].returned = TRUE]
    /\ UNCHANGED <<calls, arg, cref, joined, ran, runs, nDo>>
    /\ UNCHANGED <<lruVars, ringVars, grpVars, regVars, stepVars>>

SfNext ==
    \/ \E p \in Procs, k \in SfKeys : DoCall(p, k)
    \/ \E p \in Procs : DoLock(p)
    \/ \E p \in Procs : DoLookup(p)
    \/ \E p \in Procs : DoWait(p)
    \/ \E p \in Procs : DoFn(p)
    \/ \E p \in Procs : DoDone(p)
    \/ \E p \in Procs : DoLock2(p)
    \/ \E p \in Procs : DoDelete(p)

\* the callers of the fair runs, and those whose thunk may never return
FairProcs == {1, 2}
Hanging == {1}

SfFairNext ==
    \/ \E p \in FairProcs, k \in SfKeys : DoCall(p, k)
    \/ \E p \in FairProcs : DoLock(p)
    \/ \E p \in FairProcs : DoLookup(p)
    \/ \E p \in FairProcs : DoWait(p)
    \/ \E p \in FairProcs : DoFn(p)
    \/ \E p \in FairProcs : DoDone(p)
    \/ \E p \in FairProcs : DoLock2(p)
    \/ \E p \in FairProcs : DoDelete(p)

\* the scheduler runs every goroutine that can take a step, a goroutine
\* blocked in Lock gets the mutex once it stays free, and a thunk returns
\* unless its caller is one of Hanging; nothing obliges a caller to call Do
SfFairness ==
    /\ \A p \in FairProcs : WF_vars(DoLock(p)) /\ WF_vars(DoLock2(p))
    /\ \A p \in FairProcs : WF_vars(DoLookup(p)) /\ WF_vars(DoWait(p))
    /\ \A p \in FairProcs : WF_vars(DoDone(p)) /\ WF_vars(DoDelete(p))
    /\ \A p \in FairProcs \ Hanging : WF_vars(DoFn(p))

----------------------------------------------------------------------------
(* cache/geecache.go, with the mutex-guarded LRU wrapper of Group.mainCache *)

GroupProcs == {1, 2}
GroupKeys == {"k", "kk"}
Registrars == {1, 2}
CacheBudgets == {0, 4, 5}

\* ByteView{}
EmptyView == [b |-> <<>>]

\* ByteView{b: cloneBytes(bytes)} of the origin's data for key at a version
OriginView(key, version) == [b |-> <<"o", key, version>>]

\* ByteView{b: res.Value} of a remote peer's answer for key
PeerView(key) == [b |-> <<"p", key, 0>>]

\* mainCache.add: create the LRU on first use (lru.New(cacheBytes, nil)), then lru.Add
CacheAdd(c, key, value) ==
    LET l == IF c.made THEN c.lru ELSE LruNew(c.cacheBytes, FALSE)
    IN [c EXCEPT !.made = TRUE, !.lru = LruAdd(l, key, value)]

\* mainCache.get: the returned (value, ok); a miss while the LRU does not exist
CacheGetResult(c, key) ==
    IF c.made THEN LruGetResult(c.lru, key) ELSE [value |-> EmptyView, ok |-> FALSE]

\* mainCache.get: the cache after the call
CacheGet(c, key) ==
    IF c.made THEN [c EXCEPT !.lru = LruGet(c.lru, key)] ELSE c

GroupStart ==
    /\ \E cb \in CacheBudgets :
          mainCache = [cacheBytes |-> cb, made |-> FALSE, lru |-> LruNew(cb, FALSE)]
    /\ peers = "nil"
    /\ crashed = FALSE
    /\ origin = [k \in GroupKeys |-> 0]
    /\ tmp = [p \in Procs |-> NilVal]
    /\ used = [p \in Procs |-> {}]
    /\ note = [p \in Procs |-> NilVal]
    /\ reg = [r \in Registrars |-> "idle"]
    /\ assigned = <<>>

GroupIdle ==
    /\ mainCache = [cacheBytes |-> 0, made |-> FALSE, lru |-> LruNew(0, FALSE)]
    /\ peers = "nil"
    /\ crashed = FALSE
    /\ origin = [k \in GroupKeys |-> 0]
    /\ tmp = [p \in Procs |-> NilVal]
    /\ used = [p \in Procs |-> {}]
    /\ note = [p \in Procs |-> NilVal]
    /\ reg = [r \in Registrars |-> "idle"]
    /\ assigned = <<>>

\* history: the value of the LRU entry for key, if any
Stored(key) ==
    LET es == {mainCache.lru.ll[i] : i \in 1..Len(mainCache.lru.ll)}
    IN IF \E e \in es : e.key = key
       THEN (CHOOSE e \in es : e.key = key).value
       ELSE NilVal

InLru(key) == \E i \in 1..Len(mainCache.lru.ll) : mainCache.lru.ll[i].key = key

\* the picker that registrar r passes to RegisterPeers
PickerOf(r) == IF r = 1 THEN "picker" ELSE "picker2"

\* RegisterPeers line 92: read g.peers (no lock is held); panic when a picker
\* is already registered
RegCheck(r) ==
    /\ ~crashed
    /\ reg[r] = "idle"
    /\ IF peers # "nil"
       THEN crashed' = TRUE /\ UNCHANGED reg
       ELSE reg' = [reg EXCEPT ![r] = "checked"] /\ UNCHANGED crashed
    /\ UNCHANGED <<mainCache, peers, origin, tmp, used, note, assigned>>
    /\ UNCHANGED <<lruVars, ringVars, sfVars, stepVars>>

\* RegisterPeers line 95: g.peers = peers
RegAssign(r) ==
    /\ ~crashed
    /\ reg[r] = "checked"
    /\ peers' = PickerOf(r)
    /\ assigned' = Append(assigned, PickerOf(r))
    /\ reg' = [reg EXCEPT ![r] = "idle"]
    /\ UNCHANGED <<mainCache, crashed, origin, tmp, used, note>>
    /\ UNCHANGED <<lruVars, ringVars, sfVars, stepVars>>

\* Group.Get that goes to load without probing the LRU
GroupGetNoProbe(p, key) ==
    /\ ~crashed
    /\ pc[p] = "idle"
    /\ nDo < MaxGets
    /\ nDo' = nDo + 1
    /\ arg' = [arg EXCEPT ![p] = key]
    /\ cref' = [cref EXCEPT ![p] = 0]
    /\ joined' = [joined EXCEPT ![p] = FALSE]
    /\ ran' = [ran EXCEPT ![p] = 0]
    /\ tmp' = [tmp EXCEPT ![p] = NilVal]
    /\ win' = WinStart(key, InLru(key))
    /\ IF key = ""
       THEN /\ ret' = [ret EXCEPT ![p] = [val |-> EmptyView, err |-> "key is required"]]
            /\ used' = [used EXCEPT ![p] = {"badkey"}]
            /\ note' = [note EXCEPT ![p] = NilVal]
            /\ UNCHANGED <<pc, mainCache>>
       ELSE /\ ret' = [ret EXCEPT ![p] = NoRet]
            /\ used' = [used EXCEPT ![p] =
                          (IF InLru(key) THEN {"present"} ELSE {}) \cup {"coalescer"}]
            /\ note' = [note EXCEPT ![p] = Stored(key)]
            /\ pc' = [pc EXCEPT ![p] = "lock"]
            /\ UNCHANGED mainCache
    /\ UNCHANGED <<sfMu, sfM, calls, runs>>
    /\ UNCHANGED <<peers, crashed, origin>>
    /\ UNCHANGED <<lruVars, ringVars, regVars, stepVars>>

\* Group.Get without the empty-key check of lines 76-78
GroupGetNoKeyCheck(p, key) ==
    /\ ~crashed
    /\ pc[p] = "idle"
    /\ nDo < MaxGets
    /\ nDo' = nDo + 1
    /\ arg' = [arg EXCEPT ![p] = key]
    /\ cref' = [cref EXCEPT ![p] = 0]
    /\ joined' = [joined EXCEPT ![p] = FALSE]
    /\ ran' = [ran EXCEPT ![p] = 0]
    /\ tmp' = [tmp EXCEPT ![p] = NilVal]
    /\ win' = WinStart(key, InLru(key))
    /\ note' = [note EXCEPT ![p] = Stored(key)]
    /\ mainCache' = CacheGet(mainCache, key)
    /\ IF CacheGetResult(mainCache, key).ok
       THEN /\ ret' = [ret EXCEPT ![p] =
                         [val |-> CacheGetResult(mainCache, key).value, err |-> Nil]]
            /\ used' = [used EXCEPT ![p] =
                          (IF InLru(key) THEN {"present"} ELSE {}) \cup {"hit"}]
            /\ UNCHANGED pc
       ELSE /\ ret' = [ret EXCEPT ![p] = NoRet]
            /\ used' = [used EXCEPT ![p] =
                          (IF InLru(key) THEN {"present"} ELSE {}) \cup {"coalescer"}]
            /\ pc' = [pc EXCEPT ![p] = "lock"]
    /\ UNCHANGED <<sfMu, sfM, calls, runs>>
    /\ UNCHANGED <<peers, crashed, origin>>
    /\ UNCHANGED <<lruVars, ringVars, regVars, stepVars>>

\* Group.Get lines 75-88: reject the empty key; return the LRU's value on a
\* hit; else enter load, whose first step is loader.Do
GroupGet(p, key) ==
    /\ ~crashed
    /\ pc[p] = "idle"
    /\ nDo < MaxGets
    /\ nDo' = nDo + 1
    /\ arg' = [arg EXCEPT ![p] = key]
    /\ cref' = [cref EXCEPT ![p] = 0]
    /\ joined' = [joined EXCEPT ![p] = FALSE]
    /\ ran' = [ran EXCEPT ![p] = 0]
    /\ tmp' = [tmp EXCEPT ![p] = NilVal]
    /\ IF key = ""
       THEN /\ ret' = [ret EXCEPT ![p] = [val |-> EmptyView, err |-> "key is required"]]
            /\ used' = [used EXCEPT ![p] = {"badkey"}]
            /\ note' = [note EXCEPT ![p] = NilVal]
            /\ UNCHANGED <<pc, mainCache, win>>
       ELSE /\ win' = WinStart(key, InLru(key))
            /\ note' = [note EXCEPT ![p] = Stored(key)]
            /\ mainCache' = CacheGet(mainCache, key)
            /\ IF CacheGetResult(mainCache, key).ok
               THEN /\ ret' = [ret EXCEPT ![p] =
                                 [val |-> CacheGetResult(mainCache, key).value, err |-> Nil]]
                    /\ used' = [used EXCEPT ![p] =
                                  (IF InLru(key) THEN {"present"} ELSE {}) \cup {"hit"}]
                    /\ UNCHANGED pc
               ELSE /\ ret' = [ret EXCEPT ![p] = NoRet]
                    /\ used' = [used EXCEPT ![p] =
                                  (IF InLru(key) THEN {"present"} ELSE {}) \cup {"coalescer"}]
                    /\ pc' = [pc EXCEPT ![p] = "lock"]
    /\ UNCHANGED <<sfMu, sfM, calls, runs>>
    /\ UNCHANGED <<peers, crashed, origin>>
    /\ UNCHANGED <<lruVars, ringVars, regVars, stepVars>>

\* load lines 102-104: the thunk starts; with a picker registered, PickPeer
\* names a remote peer (ok) or not
LoadPick(p) ==
    /\ ~crashed
    /\ pc[p] = "fn"
    /\ FnBegins(p)
    /\ calls' = [calls EXCEPT ![cref[p]].nfn = @ + 1]
    /\ IF peers # "nil"
       THEN \E ok \in BOOLEAN :
               /\ pc' = [pc EXCEPT ![p] = IF ok THEN "peer" ELSE "local"]
               /\ used' = [used EXCEPT ![p] = @ \cup {"picker"} \cup (IF ok THEN {"remote"} ELSE {})]
       ELSE /\ pc' = [pc EXCEPT ![p] = "local"]
            /\ UNCHANGED used
    /\ UNCHANGED <<sfMu, sfM, arg, cref, ret, joined, nDo>>
    /\ UNCHANGED <<mainCache, peers, crashed, origin, tmp, note>>
    /\ UNCHANGED <<lruVars, ringVars, regVars, stepVars>>

\* getFromPeer whose success also populates the local cache
LoadFromPeerCaching(p) ==
    /\ ~crashed
    /\ pc[p] = "peer"
    /\ \E ok \in BOOLEAN :
          IF ok
          THEN /\ calls' = [calls EXCEPT ![cref[p]].val = PeerView(arg[p]),
                                         ![cref[p]].err = Nil,
                                         ![cref[p]].fnDone = TRUE]
               /\ mainCache' = CacheAdd(mainCache, arg[p], PeerView(arg[p]))
               /\ used' = [used EXCEPT ![p] = @ \cup {"peer", "peerok"}]
               /\ pc' = [pc EXCEPT ![p] = "done"]
          ELSE /\ used' = [used EXCEPT ![p] = @ \cup {"peer", "peerfail"}]
               /\ pc' = [pc EXCEPT ![p] = "local"]
               /\ UNCHANGED <<calls, mainCache>>
    /\ UNCHANGED <<sfMu, sfM, arg, cref, ret, joined, ran, runs, nDo, win>>
    /\ UNCHANGED <<peers, crashed, origin, tmp, note>>
    /\ UNCHANGED <<lruVars, ringVars, regVars, stepVars>>

\* getFromPeer whose failure ends the thunk with the peer's error
LoadFromPeerNoFallback(p) ==
    /\ ~crashed
    /\ pc[p] = "peer"
    /\ \E ok \in BOOLEAN :
          IF ok
          THEN /\ calls' = [calls EXCEPT ![cref[p]].val = PeerView(arg[p]),
                                         ![cref[p]].err = Nil,
                                         ![cref[p]].fnDone = TRUE]
               /\ used' = [used EXCEPT ![p] = @ \cup {"peer", "peerok"}]
          ELSE /\ calls' = [calls EXCEPT ![cref[p]].val = EmptyView,
                                         ![cref[p]].err = "peer error",
                                         ![cref[p]].fnDone = TRUE]
               /\ used' = [used EXCEPT ![p] = @ \cup {"peer", "peerfail"}]
    /\ pc' = [pc EXCEPT ![p] = "done"]
    /\ UNCHANGED <<sfMu, sfM, arg, cref, ret, joined, ran, runs, nDo, win>>
    /\ UNCHANGED <<mainCache, peers, crashed, origin, tmp, note>>
    /\ UNCHANGED <<lruVars, ringVars, regVars, stepVars>>

\* load lines 105-108 and getFromPeer: the peer's Get succeeds and the thunk
\* returns its value, or it fails and the thunk falls through to getLocally
LoadFromPeer(p) ==
    /\ ~crashed
    /\ pc[p] = "peer"
    /\ \E ok \in BOOLEAN :
          IF ok
          THEN /\ calls' = [calls EXCEPT ![cref[p]].val = PeerView(arg[p]),
                                         ![cref[p]].err = Nil,
                                         ![cref[p]].fnDone = TRUE]
               /\ used' = [used EXCEPT ![p] = @ \cup {"peer", "peerok"}]
               /\ pc' = [pc EXCEPT ![p] = "done"]
          ELSE /\ used' = [used EXCEPT ![p] = @ \cup {"peer", "peerfail"}]
               /\ pc' = [pc EXCEPT ![p] = "local"]
               /\ UNCHANGED calls
    /\ UNCHANGED <<sfMu, sfM, arg, cref, ret, joined, ran, runs, nDo, win>>
    /\ UNCHANGED <<mainCache, peers, crashed, origin, tmp, note>>
    /\ UNCHANGED <<lruVars, ringVars, regVars, stepVars>>

\* getLocally lines 124-128: g.getter.Get(key) fails and the thunk returns
\* the error, or it returns the origin's current bytes
GetLocally(p) ==
    /\ ~crashed
    /\ pc[p] = "local"
    /\ \E ok \in BOOLEAN :
          IF ok
          THEN /\ tmp' = [tmp EXCEPT ![p] = OriginView(arg[p], origin[arg[p]])]
               /\ used' = [used EXCEPT ![p] = @ \cup {"loader", "loaderok"}]
               /\ pc' = [pc EXCEPT ![p] = "populate"]
               /\ UNCHANGED calls
          ELSE /\ calls' = [calls EXCEPT ![cref[p]].val = EmptyView,
                                         ![cref[p]].err = "origin error",
                                         ![cref[p]].fnDone = TRUE]
               /\ used' = [used EXCEPT ![p] = @ \cup {"loader", "loaderfail"}]
               /\ pc' = [pc EXCEPT ![p] = "done"]
               /\ UNCHANGED tmp
    /\ UNCHANGED <<sfMu, sfM, arg, cref, ret, joined, ran, runs, nDo, win>>
    /\ UNCHANGED <<mainCache, peers, crashed, origin, note>>
    /\ UNCHANGED <<lruVars, ringVars, regVars, stepVars>>

\* getLocally lines 129-131 and populateCache: mainCache.add(key, value); the
\* thunk returns the value
PopulateCache(p) ==
    /\ ~crashed
    /\ pc[p] = "populate"
    /\ mainCache' = CacheAdd(mainCache, arg[p], tmp[p])
    /\ calls' = [calls EXCEPT ![cref[p]].val = tmp[p],
                              ![cref[p]].err = Nil,
                              ![cref[p]].fnDone = TRUE]
    /\ used' = [used EXCEPT ![p] = @ \cup {"cacheadd"} \cup
                   (IF arg[p] \in mainCache'.lru.cache THEN {"cached"} ELSE {})]
    /\ pc' = [pc EXCEPT ![p] = "done"]
    /\ UNCHANGED <<sfMu, sfM, arg, cref, ret, joined, ran, runs, nDo, win>>
    /\ UNCHANGED <<peers, crashed, origin, tmp, note>>
    /\ UNCHANGED <<lruVars, ringVars, regVars, stepVars>>

GroupNext ==
    \/ \E r \in {1} : RegCheck(r)
    \/ \E r \in {1} : RegAssign(r)
    \/ \E p \in GroupProcs, k \in GroupKeys \cup {""} : GroupGet(p, k)
    \/ \E p \in GroupProcs : DoLock(p)
    \/ \E p \in GroupProcs : DoLookup(p)
    \/ \E p \in GroupProcs : DoWait(p)
    \/ \E p \in GroupProcs : LoadPick(p)
    \/ \E p \in GroupProcs : LoadFromPeer(p)
    \/ \E p \in GroupProcs : GetLocally(p)
    \/ \E p \in GroupProcs : PopulateCache(p)
    \/ \E p \in GroupProcs : DoDone(p)
    \/ \E p \in GroupProcs : DoLock2(p)
    \/ \E p \in GroupProcs : DoDelete(p)

\* the origin's data for key moves forward to its next version
OriginAdvance(key) ==
    /\ ~crashed
    /\ origin[key] < MaxVersion
    /\ origin' = [origin EXCEPT ![key] = @ + 1]
    /\ UNCHANGED <<mainCache, peers, crashed, tmp, used, note>>
    /\ UNCHANGED <<lruVars, ringVars, sfVars, regVars, stepVars>>

\* a Group with no picker registered whose origin changes while Gets run
FreshNext ==
    \/ \E k \in GroupKeys : OriginAdvance(k)
    \/ \E p \in GroupProcs, k \in GroupKeys \cup {""} : GroupGet(p, k)
    \/ \E p \in GroupProcs : DoLock(p)
    \/ \E p \in GroupProcs : DoLookup(p)
    \/ \E p \in GroupProcs : DoWait(p)
    \/ \E p \in GroupProcs : LoadPick(p)
    \/ \E p \in GroupProcs : GetLocally(p)
    \/ \E p \in GroupProcs : PopulateCache(p)
    \/ \E p \in GroupProcs : DoDone(p)
    \/ \E p \in GroupProcs : DoLock2(p)
    \/ \E p \in GroupProcs : DoDelete(p)

\* concurrent RegisterPeers calls on one Group that a single caller reads
RegisterNext ==
    \/ \E r \in Registrars : RegCheck(r)
    \/ \E r \in Registrars : RegAssign(r)
    \/ \E k \in GroupKeys \cup {""} : GroupGet(1, k)
    \/ DoLock(1)
    \/ DoLookup(1)
    \/ LoadPick(1)
    \/ LoadFromPeer(1)
    \/ GetLocally(1)
    \/ PopulateCache(1)
    \/ DoDone(1)
    \/ DoLock2(1)
    \/ DoDelete(1)

----------------------------------------------------------------------------
(* Specifications: one per component *)

LruInit == LruStart /\ RingIdle /\ SfIdle /\ GroupIdle

RingInit == RingStart /\ LruIdle /\ SfIdle /\ GroupIdle

SfInit == SfStart /\ GroupIdle /\ LruIdle /\ RingIdle

GroupInit == SfStart /\ GroupStart /\ LruIdle /\ RingIdle

LruStepInit == LruStepStart /\ RingIdle /\ SfIdle /\ GroupIdle

SpecLRU == LruInit /\ [][LruNext]_vars

SpecLRUStep == LruStepInit /\ [][LruStepNext]_vars

SpecRing == RingInit /\ [][RingNext]_vars

SpecRingPair == RingInit /\ [][RingPairNext]_vars

SpecSF == SfInit /\ [][SfNext]_vars

SpecSFFair == SfInit /\ [][SfFairNext]_vars /\ SfFairness

SpecGroup == GroupInit /\ [][GroupNext]_vars

SpecFresh == GroupInit /\ [][FreshNext]_vars

SpecRegister == GroupInit /\ [][RegisterNext]_vars

----------------------------------------------------------------------------
(* Properties of the LRU store *)

RECURSIVE EntryBytes(_)
EntryBytes(ll) ==
    IF ll = <<>> THEN 0
    ELSE Len(Head(ll).key) + ValueLen(Head(ll).value) + EntryBytes(Tail(ll))

\* C3: after any sequence of Add, Get and RemoveOldest the running byte total
\* nbytes equals the sum of len(key) + value.Len() over the entries in the store
\* (and the list and the index hold the same keys).
C3_ByteAccounting ==
    /\ lru.nbytes = EntryBytes(lru.ll)
    /\ Len(lru.ll) = Cardinality(lru.cache)
    /\ {lru.ll[i].key : i \in 1..Len(lru.ll)} = lru.cache

\* an Add has updated the value of an existing key while another entry is stored
C3_Witness ==
    /\ lruOp.op = "Add" /\ lruOp.hit
    /\ Len(lru.ll) >= 2
    /\ lru.nbytes > 0

\* C4: with maxBytes > 0 every Add returns with nbytes <= maxBytes, also when
\* the added entry alone exceeds the budget.
C4_BudgetBound ==
    (lru.maxBytes > 0 /\ lruOp.op = "Add") => lru.nbytes <= lru.maxBytes

\* an Add of an entry larger than the whole budget has returned
C4_Witness ==
    /\ lruOp.op = "Add"
    /\ lru.maxBytes > 0
    /\ lruOp.size > lru.maxBytes
    /\ lruOp.prev.op = "Add"

Pos(order, k) == CHOOSE i \in 1..Len(order) : order[i] = k

\* C5: every entry an Add or RemoveOldest evicts was, when evicted, the entry
\* whose last access (Add or Get hit) is oldest: the evicted keys are older
\* than every survivor, and the eviction callback sees them oldest first.
C5_EvictionIsLRU ==
    /\ \A e \in evictedSet : \A s \in lru.cache :
           Pos(preOrder, e) > Pos(preOrder, s)
    /\ lru.OnEvicted =>
           /\ Len(lru.evicted) = Cardinality(evictedSet)
           /\ \A i \in 1..Len(lru.evicted) :
                  lru.evicted[i].key = preOrder[Len(preOrder) - i + 1]

\* after a Get hit on k, an Add of another key evicted an entry and k survived
C5_Witness ==
    /\ lruOp.op = "Add"
    /\ lruOp.prev.op = "Get" /\ lruOp.prev.hit
    /\ lruOp.prev.key # lruOp.key
    /\ lruOp.prev.key \in lru.cache
    /\ evictedSet # {}
    /\ lru.OnEvicted

----------------------------------------------------------------------------
(* Properties of the consistent-hash ring *)

PeerSet(r) == {added[r][i] : i \in 1..Len(added[r])}

\* the virtual-node hashes of peer p under ring r's replicas and hash function
VNodesOf(r, p) == {VNodeHash(rings[r], i, p) : i \in 0..(rings[r].replicas - 1)}

AllVNodes(r) == UNION {VNodesOf(r, p) : p \in PeerSet(r)}

SetMin(S) == CHOOSE x \in S : \A y \in S : x <= y

\* the hash a key lands on: the smallest virtual-node hash >= hash(key), or
\* the smallest one overall when there is none
TargetHash(r, key) ==
    LET h == Hash(rings[r].hash, key)
        above == {x \in AllVNodes(r) : x >= h}
    IN IF above # {} THEN SetMin(above) ELSE SetMin(AllVNodes(r))

Owners(r, hash) == {p \in PeerSet(r) : hash \in VNodesOf(r, p)}

NoSharedHash(r) ==
    \A p, q \in PeerSet(r) : p # q => VNodesOf(r, p) \cap VNodesOf(r, q) = {}

LookupIsOwner(r) ==
    \A key \in RingLookupKeys :
        IF PeerSet(r) = {} THEN RingGet(rings[r], key) = <<>>
        ELSE RingGet(rings[r], key) \in Owners(r, TargetHash(r, key))

SameLookups == \A key \in RingLookupKeys : RingGet(rings[1], key) = RingGet(rings[2], key)

\* C6 as stated: on rings built by Add calls Get returns the owner of the
\* smallest virtual-node hash >= hash(key) (wrapping around), the empty peer ID
\* on an empty ring, and two rings with the same replicas, hash function and
\* peer set answer every Get alike.
C6_Original ==
    /\ \A r \in RingIds : LookupIsOwner(r)
    /\ PeerSet(1) = PeerSet(2) => SameLookups

\* C6 amended: Get returns a peer owning the smallest virtual-node hash >=
\* hash(key) (wrapping around), the empty peer ID on an empty ring, and rings
\* with the same replicas, hash function and peer set answer alike provided no
\* two virtual nodes of different peers share a hash.
C6_RingLookup ==
    /\ \A r \in RingIds : LookupIsOwner(r)
    /\ ringGot.ring # 0 =>
          IF PeerSet(ringGot.ring) = {} THEN ringGot.peer = <<>>
          ELSE ringGot.peer \in Owners(ringGot.ring, TargetHash(ringGot.ring, ringGot.key))
    /\ (PeerSet(1) = PeerSet(2) /\ NoSharedHash(1)) => SameLookups

\* two rings hold the same two peers, added in different orders, and a Get
\* whose key hashes above every virtual node has just wrapped around
C6_Witness ==
    /\ PeerSet(1) = PeerSet(2)
    /\ Cardinality(PeerSet(1)) = 2
    /\ added[1] # added[2]
    /\ NoSharedHash(1)
    /\ ringGot.ring = 1
    /\ \A x \in AllVNodes(1) : x < Hash(rings[1].hash, ringGot.key)
    /\ ringGot.peer \in PeerSet(1)

\* the peers added to ring r before its last Add
AddedBefore(r) == {added[r][i] : i \in 1..(Len(added[r]) - 1)}

\* C7: Add(p) of a peer p not in the ring followed by Remove(p) restores the
\* ring: the same virtual nodes, the same hash-to-peer entries and the same
\* answer of Get for every key as before Add(p), whatever the hash function.
C7_AddRemoveRoundTrip ==
    LET ops == ringOps[1] IN
    (/\ ops[1].op = "Add" /\ ops[2].op = "Remove"
     /\ ops[1].peer = ops[2].peer
     /\ ops[1].peer \notin AddedBefore(1)
     /\ ringN[1] = Len(added[1]) + 1)
    => /\ ~rings[1].panicked
       /\ rings[1].keys = snap[1].keys
       /\ rings[1].hashMap = snap[1].hashMap
       /\ \A key \in RingLookupKeys : RingGet(rings[1], key) = RingGet(snap[1], key)

----------------------------------------------------------------------------
(* Properties of the single-flight coalescer *)

CallResult(c) == [val |-> calls[c].val, err |-> calls[c].err]

\* C1: a Do call whose lookup finds a record for its key in the map never runs
\* its own thunk, does not return before the record's thunk has returned, and
\* returns that thunk's (value, error); each record's thunk runs at most once
\* and the leader returns the same pair.
C1_Coalesced ==
    /\ \A p \in Procs :
          /\ joined[p] => ran[p] = 0
          /\ (joined[p] /\ pc[p] = "idle") =>
                /\ calls[cref[p]].fnDone
                /\ calls[cref[p]].nfn = 1
                /\ ret[p] = CallResult(cref[p])
          /\ (~joined[p] /\ cref[p] # 0 /\ pc[p] = "idle") =>
                /\ ran[p] = 1
                /\ ret[p] = CallResult(cref[p])
    /\ \A c \in 1..Len(calls) : calls[c].nfn <= 1

\* two callers joined the call of a third, whose thunk failed, and all three
\* have returned its result
C1_Witness ==
    \E p, q, l \in Procs :
        /\ p # q /\ joined[p] /\ joined[q] /\ ~joined[l]
        /\ cref[p] = cref[l] /\ cref[q] = cref[l] /\ cref[l] # 0
        /\ pc[p] = "idle" /\ pc[q] = "idle" /\ pc[l] = "idle"
        /\ ret[p] = ret[l] /\ ret[q] = ret[l]
        /\ ret[l].err = "thunk error"
        /\ ret[l].val = FnVal(arg[l], 1)

----------------------------------------------------------------------------
(* Properties of the Group *)

\* whether an entry for key with a 3-byte value fits the byte budget
Fits(key) == mainCache.cacheBytes = 0 \/ Len(key) + 3 <= mainCache.cacheBytes

\* C2: Get(k) calls on one Group that all overlap in time (none started after
\* another returned) while k was not in the LRU at their start cause at most
\* one run of the fetching thunk for k.
C2_OneFetch ==
    \A k \in GroupKeys : ~win[k].dirty => win[k].n <= 1

\* C8: a Get whose picker chose a remote peer and whose peer fetch failed goes
\* on to the origin loader, returns the loader's value without error when the
\* loader succeeds, and has put the key into the LRU when the entry fits.
C8_PeerFallback ==
    \A p \in GroupProcs :
        "peerfail" \in used[p] =>
            /\ pc[p] \in {"local", "populate", "done", "lock2", "locked2", "idle"}
            /\ pc[p] # "local" => "loader" \in used[p]
            /\ (pc[p] = "idle" /\ "loaderok" \in used[p]) =>
                  ret[p] = [val |-> OriginView(arg[p], origin[arg[p]]), err |-> Nil]
            /\ (pc[p] = "idle" /\ "loaderfail" \in used[p]) => ret[p].err = "origin error"
            /\ ("cacheadd" \in used[p] /\ Fits(arg[p])) => "cached" \in used[p]
            /\ ("loaderok" \in used[p] /\ pc[p] # "populate") => "cacheadd" \in used[p]

\* a Get returned the loader's value after its peer fetch failed, the key in the LRU
C8_Witness ==
    \E p \in GroupProcs :
        /\ {"remote", "peerfail", "loaderok", "cached"} \subseteq used[p]
        /\ pc[p] = "idle"
        /\ ret[p].err = Nil
        /\ InLru(arg[p])

\* C9: a Get whose peer fetch succeeded returns the peer's value, has not
\* called the origin loader nor added to the LRU, and every LRU entry holds a
\* value the origin loader produced for its key.
C9_RemoteNotCached ==
    /\ \A p \in GroupProcs :
          "peerok" \in used[p] =>
              /\ used[p] \cap {"loader", "cacheadd"} = {}
              /\ pc[p] = "idle" => ret[p] = [val |-> PeerView(arg[p]), err |-> Nil]
    /\ \A i \in 1..Len(mainCache.lru.ll) :
          LET e == mainCache.lru.ll[i] IN e.value = OriginView(e.key, origin[e.key])

\* a Get returned a remote peer's value while the LRU held another key that
\* an origin load had filled
C9_Witness ==
    \E p \in GroupProcs :
        /\ "peerok" \in used[p]
        /\ pc[p] = "idle"
        /\ ret[p].val = PeerView(arg[p])
        /\ ~InLru(arg[p])
        /\ Len(mainCache.lru.ll) = 1

\* C10: a Get(k) that starts while the LRU holds k returns the LRU's bytes
\* for k at once, without the coalescer, the peer picker, a peer or the origin
\* loader.
C10_LocalHit ==
    \A p \in GroupProcs :
        "present" \in used[p] =>
            /\ used[p] = {"present", "hit"}
            /\ pc[p] = "idle"
            /\ cref[p] = 0
            /\ ret[p] = [val |-> note[p], err |-> Nil]
            /\ note[p] = OriginView(arg[p], origin[arg[p]])

\* the second of two successive Get(k) calls hit, after the first had been
\* filled by the origin loader: one thunk run in all
C10_Witness ==
    \E p, q \in GroupProcs :
        /\ arg[p] = arg[q]
        /\ "cached" \in used[q] /\ pc[q] = "idle"
        /\ "hit" \in used[p] /\ pc[p] = "idle"
        /\ ret[p] = ret[q]
        /\ runs = 1
        /\ nDo = 2

----------------------------------------------------------------------------
(* Properties of RegisterPeers *)

\* C12: over any sequence or interleaving of RegisterPeers calls on one Group,
\* the peers field is assigned at most once, and once a registration has taken
\* effect the installed picker stays the one first assigned, also when a later
\* call has panicked.
C12_PickerSetOnce ==
    /\ Len(assigned) <= 1
    /\ (assigned # <<>> => peers = assigned[1])
    /\ (crashed => peers # "nil")

----------------------------------------------------------------------------
(* Properties of failed origin loads *)

\* the thunk of call record c has returned and its leader has left Do
Ended(c) ==
    /\ calls[c].fnDone
    /\ ~(cref[calls[c].leader] = c /\ pc[calls[c].leader] # "idle")

\* C11: when the origin loader fails for a key and no remote peer supplied the
\* value, the Get returns that error, as does every Get coalesced on the same
\* call; the failing Get adds nothing to the LRU, which never holds anything
\* but origin bytes; and the failure is not remembered: once the failed call
\* has ended its record is in the coalescer no more, and every record's result
\* comes from one run of its own load.
C11_OriginFailure ==
    /\ \A p \in GroupProcs :
          "loaderfail" \in used[p] =>
             /\ used[p] \cap {"cacheadd", "cached", "peerok", "hit"} = {}
             /\ calls[cref[p]].err = "origin error"
             /\ calls[cref[p]].val = EmptyView
             /\ (pc[p] = "idle" => ret[p] = [val |-> EmptyView, err |-> "origin error"])
    /\ \A q \in GroupProcs :
          (joined[q] /\ pc[q] = "idle" /\ calls[cref[q]].err = "origin error") =>
             /\ ret[q] = [val |-> EmptyView, err |-> "origin error"]
             /\ used[q] \cap {"loader", "cacheadd", "peer"} = {}
    /\ \A i \in 1..Len(mainCache.lru.ll) :
          mainCache.lru.ll[i].value = OriginView(mainCache.lru.ll[i].key, 0)
    /\ \A c \in 1..Len(calls) :
          /\ (Ended(c) /\ calls[c].err = "origin error") =>
                \A k \in DOMAIN sfM.tab : sfM.tab[k] # c
          /\ calls[c].fnDone => calls[c].nfn = 1

\* a Get that started after a failed load of the same key had ended has called
\* the origin loader again
C11_Witness ==
    /\ Len(calls) = 2
    /\ calls[1].err = "origin error"
    /\ Ended(1)
    /\ calls[2].key = calls[1].key
    /\ cref[calls[2].leader] = 2
    /\ "loader" \in used[calls[2].leader]
    /\ win[calls[1].key].n = 1
    /\ runs = 2

----------------------------------------------------------------------------
(* Properties of Group.Get with the empty key *)

\* C13: a Get with the empty key fails with the error "key is required" and
\* has no other effect: the caller never enters the coalescer, no call record
\* and no map entry exists for the empty key, neither the picker nor the
\* loader is invoked for it, and the LRU never holds the empty key.
C13_EmptyKey ==
    /\ \A p \in GroupProcs :
          arg[p] = "" =>
             /\ pc[p] = "idle"
             /\ cref[p] = 0
             /\ used[p] \subseteq {"badkey"}
             /\ ("badkey" \in used[p] =>
                   ret[p] = [val |-> EmptyView, err |-> "key is required"])
    /\ "" \notin DOMAIN sfM.tab
    /\ \A c \in 1..Len(calls) : calls[c].key # ""
    /\ ~InLru("")
    /\ win[""] = NoWin

\* a Get with the empty key has returned while the LRU holds an entry
C13_Witness ==
    \E p \in GroupProcs :
       /\ "badkey" \in used[p]
       /\ arg[p] = ""
       /\ Len(mainCache.lru.ll) = 1
       /\ Len(calls) = 1

----------------------------------------------------------------------------
(* Properties of the ring under Add and Remove *)

Sorted(s) == \A i \in 1..(Len(s) - 1) : s[i] <= s[i + 1]

\* C14: after any sequence of Add and Remove calls that returned, the hash
\* array of the ring is sorted ascending, every element of it is a key of the
\* hash-to-peer map, and Get on a non-empty ring never returns the empty peer
\* ID.
C14_RingInvariant ==
    LET m == rings[1] IN
    ~m.panicked =>
       /\ Sorted(m.keys)
       /\ \A i \in 1..Len(m.keys) : m.keys[i] \in DOMAIN m.hashMap
       /\ Len(m.keys) > 0 => \A key \in RingLookupKeys : RingGet(m, key) # <<>>
       /\ (ringGot.ring = 1 /\ Len(m.keys) > 0) => ringGot.peer # <<>>

----------------------------------------------------------------------------
(* Properties of colliding virtual nodes *)

\* the peer of ring r that was added first among those owning hash
FirstOwner(r, hash) ==
    LET idx == {i \in 1..Len(added[r]) : hash \in VNodesOf(r, added[r][i])}
    IN added[r][SetMin(idx)]

\* C15: when virtual nodes of different peers hash to the same value, the
\* peer inserted first owns that hash: Get of a key landing on it returns the
\* first-inserted peer.
C15_FirstInsertedWins ==
    \A r \in RingIds : \A key \in RingLookupKeys :
        (PeerSet(r) # {} /\ Cardinality(Owners(r, TargetHash(r, key))) > 1) =>
            RingGet(rings[r], key) = FirstOwner(r, TargetHash(r, key))

----------------------------------------------------------------------------
(* Properties of the coalescer's call records *)

\* process p leads a call: it published the record and has not deleted it yet
Leading(p) == pc[p] \in {"fn", "peer", "local", "populate", "done", "lock2", "locked2"}

\* C16: at any moment each key has at most one call led for it, hence at most
\* one record and at most one thunk executing; the record the map holds for
\* a key is the record of the call being led for it, so the delete of a
\* leader removes its own record and never that of another running call.
C16_OneActiveCall ==
    /\ \A k \in SfKeys : Cardinality({p \in Procs : Leading(p) /\ arg[p] = k}) <= 1
    /\ \A p \in Procs :
          Leading(p) => /\ arg[p] \in DOMAIN sfM.tab
                        /\ sfM.tab[arg[p]] = cref[p]
                        /\ ~joined[p]
    /\ \A k \in DOMAIN sfM.tab :
          /\ calls[sfM.tab[k]].key = k
          /\ \E p \in Procs : Leading(p) /\ cref[p] = sfM.tab[k]
    /\ \A c \in 1..Len(calls) : calls[c].nfn <= 1

\* a second call for a key is led, with a waiter joined to it, after the
\* first call for that key has ended
C16_Witness ==
    \E p, q \in Procs :
       /\ p # q
       /\ Len(calls) = 2
       /\ calls[1].key = calls[2].key
       /\ calls[1].fnDone
       /\ pc[p] = "fn" /\ cref[p] = 2
       /\ pc[q] = "wait" /\ cref[q] = 2

----------------------------------------------------------------------------
(* Properties of the coalescer's lock *)

\* g.mu is held only between Lock and Unlock of the lookup and of the delete
LockOnlyAroundMap == \A p \in Procs : sfMu = p => pc[p] \in {"locked", "locked2"}

\* process q waits for a call of its own key whose thunk may never return
BehindHanging(q) ==
    /\ pc[q] = "wait"
    /\ calls[cref[q]].key = arg[q]
    /\ calls[cref[q]].leader \in Hanging

\* C17: the map lock is held only during lookup, publish and delete, never
\* while a thunk runs or a waiter waits; so every Do whose own thunk returns
\* goes on to return, whatever thunks of other keys are still running or
\* never return: only a non-returning thunk of its own key can hold it back.
C17_NoCrossKeyBlocking ==
    /\ []LockOnlyAroundMap
    /\ \A q \in FairProcs \ Hanging :
          (pc[q] = "lock") ~> (pc[q] = "idle" \/ BehindHanging(q))

\* a Do for one key has run its thunk and returned while the thunk of an
\* earlier call for another key is still running
C17_Witness ==
    \E q \in FairProcs \ Hanging :
       /\ pc[1] = "fn"
       /\ pc[q] = "idle"
       /\ arg[q] \notin {"", arg[1]}
       /\ cref[q] > cref[1]
       /\ ~joined[q]
       /\ ran[q] = 1
       /\ ret[q].err # "none"

----------------------------------------------------------------------------
(* Properties of the lifecycle of a call record *)

\* the call records the map holds
InMap == {sfM.tab[k] : k \in DOMAIN sfM.tab}

\* a record that has left the map never comes back to it
RemovedForGood == \A c \in 1..Len(calls) : c \notin InMap => c \notin InMap'

\* the record of a call has left the map when its leader has returned
RemovedAtReturn == \A c \in 1..Len(calls) : Ended(c) => c \notin InMap

\* a caller that returned from a record it published ran the thunk itself, once
LeaderRanOnce ==
    \A p \in Procs : (pc[p] = "idle" /\ cref[p] # 0 /\ ~joined[p]) => ran[p] = 1

\* process p is in a call whose thunk has returned
AfterThunk(p) == pc[p] \in {"done", "lock2", "locked2"} \/ (pc[p] = "wait" /\ calls[cref[p]].fnDone)

\* C20: under fair scheduling, once the thunk of a call has returned its
\* leader and every waiter joined to it return from Do, and the record has
\* left the map when the leader returns; a removed record never comes back,
\* so a Do that starts after the removal finds no record, publishes its own
\* and runs its thunk afresh.
C20_RecordLifecycle ==
    /\ \A p \in FairProcs : AfterThunk(p) ~> (pc[p] = "idle")
    /\ []RemovedAtReturn
    /\ [][RemovedForGood]_vars
    /\ []LeaderRanOnce

\* the leader and a waiter of a call have both returned its result, its
\* record has left the map, and a later Do for the same key has published a
\* record of its own and run the thunk again
C20_Witness ==
    \E p, q \in FairProcs :
       /\ p # q
       /\ Len(calls) = 2
       /\ calls[1].key = calls[2].key
       /\ calls[1].leader = p
       /\ pc[p] = "idle" /\ cref[p] = 1
       /\ ret[p] = [val |-> calls[1].val, err |-> calls[1].err]
       /\ calls[2].leader = q
       /\ cref[q] = 2
       /\ calls[2].fnDone
       /\ calls[2].val # calls[1].val
       /\ 1 \notin InMap
       /\ nDo = 3

----------------------------------------------------------------------------
(* Properties of the freshness of stored values *)

\* the origin version of a byte view
Version(v) == v.b[3]

\* while a key stays in the LRU its stored value is never replaced by an older one
NoStaleOverwrite ==
    \A k \in GroupKeys :
        (InLru(k) /\ InLru(k)') => Version(Stored(k)') >= Version(Stored(k))

\* the entry the LRU holds for a key is at least as fresh as the value the
\* last Get of any caller for that key was served from the LRU
HitNotFresher ==
    \A p \in GroupProcs :
        ("hit" \in used[p] /\ InLru(arg[p])) =>
            Version(Stored(arg[p])) >= Version(ret[p].val)

\* C18: with an origin whose value for a key only moves forward, no
\* interleaving of concurrent misses, origin loads and cache insertions
\* replaces the stored value of a key by an older one, and the stored value
\* is at least as fresh as any value a Get was served from the LRU before.
C18_FreshnessMonotonic ==
    /\ [][NoStaleOverwrite]_vars
    /\ []HitNotFresher

\* two loads of one key, each having found the LRU without it, stored their
\* values one after the other: the second replaced version 0 by version 1
C18_Witness ==
    \E k \in GroupKeys :
       /\ Len(calls) = 2
       /\ calls[1].val = OriginView(k, 0)
       /\ calls[2].val = OriginView(k, 1)
       /\ "cached" \in used[calls[1].leader]
       /\ "cached" \in used[calls[2].leader]
       /\ calls[1].leader # calls[2].leader
       /\ Stored(k) = OriginView(k, 1)

----------------------------------------------------------------------------
(* Properties of the eviction loop *)

\* C19: Add returns after finitely many evictions, whatever maxBytes (zero,
\* positive or negative), store, key and value: whenever the eviction loop is
\* about to run another iteration the list holds an entry for RemoveOldest to
\* remove, so each iteration shortens the list and the loop ends.
C19_AddTerminates ==
    (lruPc = "evict" /\ LoopCond(lru)) => Len(lru.ll) > 0

====
